---- MODULE Spec2Model ----
(***************************************************************************)
(* A model of the two scripts of the repository:                           *)
(*                                                                         *)
(*   src/src/py/whisper_service.py   the /transcribe HTTP endpoint         *)
(*   src/bin/mcp-test-server.py      the echo and add tools                *)
(*                                                                         *)
(* The transcription service is one process with one asyncio event loop.   *)
(* The handler is a coroutine (async def) whose body holds a single await, *)
(* the read of the upload; the event loop runs a coroutine from one        *)
(* suspension point to the next without interruption.  The handler body is *)
(* modelled statement by statement (one operator per statement, on a       *)
(* record of the process state); transcribe runs statements up to the next *)
(* suspension point, which is one step of the event loop.                  *)
(***************************************************************************)
EXTENDS Integers, Sequences, FiniteSets, TLC

VARIABLES
    proc,        \* "starting" | "serving" | "failed": the module import of whisper_service.py
    model,       \* the global `model` (line 18)
    loads,       \* history: number of calls of whisper.load_model made so far
    tempfile,    \* contents of the file "temp.wav" in the working directory
    pc,          \* per request: position of its handler coroutine
    upload,      \* per request: the bytes of the uploaded file `audio`
    content,     \* per request: the local `content`
    decoded,     \* per request: outcome of sf.read("temp.wav")
    audio_data,  \* per request: the local `audio_data`
    result,      \* per request: outcome of model.transcribe(audio_data)
    response,    \* per request: what the request ended with
    overlapped,  \* history: pairs of requests that were in flight at the same time
    call         \* the last tool call served by the MCP test server

vars == <<proc, model, loads, tempfile, pc, upload, content, decoded,
          audio_data, result, response, overlapped, call>>

----------------------------------------------------------------------------
(* Bounds and inputs *)

NumRequests == 2
Requests == 1..NumRequests

RequiredRate == 16000

\* Uploaded files: WAV files (a header sample rate and 16-bit PCM frames) and
\* one blob that is no audio file at all.
Wav(rate, frames) == [kind |-> "wav", rate |-> rate, frames |-> frames]
Junk == [kind |-> "junk", rate |-> 0, frames |-> <<>>]
NoFile == [kind |-> "absent", rate |-> 0, frames |-> <<>>]
Rates == {8000, RequiredRate, 44100}
FrameSeqs == {<<0, 0>>, <<12000, -12000>>}
AudioFiles == {Wav(rt, fs) : rt \in Rates, fs \in FrameSeqs} \cup {Junk}

Unloaded == [name |-> "none", device |-> "none"]

NoBytes == [kind |-> "unset", rate |-> 0, frames |-> <<>>]
NoArray == [dtype |-> "unset", values |-> <<>>]
NotDecoded == [status |-> "unset", data |-> NoArray, samplerate |-> 0]
NotCalled == [kind |-> "notcalled"]
Raised == [kind |-> "raised"]
NoResponse == [kind |-> "none"]

----------------------------------------------------------------------------
(* Library calls the handler makes *)

\* sf.read(path): decodes a WAV file to float64 samples in [-1, 1) and its
\* sample rate; raises on a file that is not audio.  A sample is kept as the
\* dyadic fraction num / 2^exp.
SfRead(bytes) ==
    IF bytes.kind = "wav"
    THEN [status |-> "ok",
          data |-> [dtype |-> "float64",
                    values |-> [i \in 1..Len(bytes.frames) |->
                                   [num |-> bytes.frames[i], exp |-> 15]]],
          samplerate |-> bytes.rate]
    ELSE [status |-> "raised", data |-> NoArray, samplerate |-> 0]

\* ndarray.astype(np.float32): the same samples (16-bit fractions are exact in
\* float32) under the new dtype.
AsFloat32(arr) == [dtype |-> "float32", values |-> arr.values]

\* model.transcribe(audio): a result dictionary; the text is a function of the
\* samples and the model, left uninterpreted.
ModelTranscribe(m, arr) ==
    [kind |-> "dict",
     text |-> <<"text", m.name, arr.values>>,
     segments |-> <<>>,
     language |-> "en"]

----------------------------------------------------------------------------
(* The process state as one record, so that a statement is a function *)

State ==
    [model |-> model, loads |-> loads, tempfile |-> tempfile, pc |-> pc,
     upload |-> upload, content |-> content, decoded |-> decoded,
     audio_data |-> audio_data, result |-> result, response |-> response]

Commit(s) ==
    /\ model' = s.model
    /\ loads' = s.loads
    /\ tempfile' = s.tempfile
    /\ pc' = s.pc
    /\ upload' = s.upload
    /\ content' = s.content
    /\ decoded' = s.decoded
    /\ audio_data' = s.audio_data
    /\ result' = s.result
    /\ response' = s.response

\* An exception that leaves the handler: the framework answers the request
\* with an error and the coroutine ends.
Raise(s, r, exc) ==
    [s EXCEPT !.pc[r] = "error",
              !.response[r] = [kind |-> "error", exc |-> exc]]

----------------------------------------------------------------------------
(* transcribe(audio), statement by statement *)

\* The framework calls the handler with the parsed upload; the handler logs
\* and calls audio.read().
Receive(s, r, bytes) ==
    [s EXCEPT !.upload[r] = bytes, !.pc[r] = "reading"]

\* content = await audio.read()
ReadUpload(s, r) ==
    [s EXCEPT !.content[r] = s.upload[r], !.pc[r] = "write"]

\* Variant: the file is written only when it does not exist yet.
WriteTempIfAbsent(s, r) ==
    [s EXCEPT !.tempfile = IF s.tempfile = NoFile THEN s.content[r] ELSE s.tempfile,
              !.pc[r] = "decode"]

\* with open("temp.wav", "wb") as f: f.write(content)
WriteTemp(s, r) ==
    [s EXCEPT !.tempfile = s.content[r], !.pc[r] = "decode"]

\* audio_data, sample_rate = sf.read("temp.wav")
Decode(s, r) ==
    LET d == SfRead(s.tempfile) IN
    IF d.status = "ok"
    THEN [s EXCEPT !.decoded[r] = d, !.audio_data[r] = d.data, !.pc[r] = "check"]
    ELSE Raise([s EXCEPT !.decoded[r] = d], r, "LibsndfileError")

\* Variant: only rates below the required one are rejected.
CheckRateLow(s, r) ==
    IF s.decoded[r].samplerate < RequiredRate
    THEN Raise(s, r, "ValueError")
    ELSE [s EXCEPT !.pc[r] = "cast"]

\* Variant: the rejected file is removed.
CheckRateCleanup(s, r) ==
    IF s.decoded[r].samplerate # RequiredRate
    THEN Raise([s EXCEPT !.tempfile = NoFile], r, "ValueError")
    ELSE [s EXCEPT !.pc[r] = "cast"]

\* if sample_rate != 16000: raise ValueError("Audio must be 16kHz")
CheckRate(s, r) ==
    IF s.decoded[r].samplerate # RequiredRate
    THEN Raise(s, r, "ValueError")
    ELSE [s EXCEPT !.pc[r] = "cast"]

\* audio_data = audio_data.astype(np.float32)
Cast(s, r) ==
    [s EXCEPT !.audio_data[r] = AsFloat32(s.audio_data[r]), !.pc[r] = "infer"]

\* Variant: the handler loads the model again before it transcribes.
InferReload(s, r, raises) ==
    LET m == [name |-> "small", device |-> "cpu"] IN
    IF raises
    THEN Raise([s EXCEPT !.result[r] = Raised], r, "RuntimeError")
    ELSE [s EXCEPT !.model = m, !.loads = s.loads + 1,
                   !.result[r] = ModelTranscribe(m, s.audio_data[r]),
                   !.pc[r] = "respond"]

\* result = model.transcribe(audio_data); the call may raise (the inference
\* library's own failures)
Infer(s, r, raises) ==
    IF raises
    THEN Raise([s EXCEPT !.result[r] = Raised], r, "RuntimeError")
    ELSE [s EXCEPT !.result[r] = ModelTranscribe(s.model, s.audio_data[r]),
                   !.pc[r] = "respond"]

\* Variant: the whole result dictionary is returned.
RespondWholeResult(s, r) ==
    [s EXCEPT !.response[r] = [kind |-> "ok", body |-> s.result[r]],
              !.pc[r] = "ok"]

\* transcribed_text = result["text"]; return {"text": transcribed_text}
Respond(s, r) ==
    [s EXCEPT !.response[r] = [kind |-> "ok", body |-> [text |-> s.result[r].text]],
              !.pc[r] = "ok"]

\* The statement at the request's position.
Exec(s, r, raises) ==
    CASE s.pc[r] = "reading" -> ReadUpload(s, r)
      [] s.pc[r] = "write"   -> WriteTemp(s, r)
      [] s.pc[r] = "decode"  -> Decode(s, r)
      [] s.pc[r] = "check"   -> CheckRate(s, r)
      [] s.pc[r] = "cast"    -> Cast(s, r)
      [] s.pc[r] = "infer"   -> Infer(s, r, raises)
      [] s.pc[r] = "respond" -> Respond(s, r)

Finished(p) == p \in {"ok", "error"}

\* Variant: the file is written with an awaited (asynchronous) write.
SuspendsAfterWrite(p) == p \in {"reading", "decode"}

\* The positions at which the coroutine gives control back to the event
\* loop: the handler's only await is the read of the upload.
Suspends(p) == p = "reading"

\* Variant: the event loop may take over after every statement.
OneStatementPerStep(s, r, raises) == Exec(s, r, raises)

\* One step of the event loop on request r: statements run until the
\* coroutine ends or reaches a suspension point.  (t ranges over the one
\* state that the statement leaves, so that it is computed once.)
RECURSIVE transcribe(_, _, _)
transcribe(s, r, raises) ==
    CHOOSE u \in {IF Finished(t.pc[r]) \/ Suspends(t.pc[r]) THEN t ELSE transcribe(t, r, raises) :
                     t \in {Exec(s, r, raises)}} : TRUE

----------------------------------------------------------------------------
(* The transcription service *)

InitTools == call = [tool |-> "none", args |-> <<>>, result |-> <<>>, outcome |-> "none"]

InitService ==
    /\ proc = "starting"
    /\ model = Unloaded
    /\ loads = 0
    /\ tempfile \in {NoFile} \cup AudioFiles
    /\ pc = [r \in Requests |-> "idle"]
    /\ upload = [r \in Requests |-> NoBytes]
    /\ content = [r \in Requests |-> NoBytes]
    /\ decoded = [r \in Requests |-> NotDecoded]
    /\ audio_data = [r \in Requests |-> NoArray]
    /\ result = [r \in Requests |-> NotCalled]
    /\ response = [r \in Requests |-> NoResponse]
    /\ overlapped = {}

Init == InitService /\ InitTools

\* Variant: a failed load is tried again.
LoadModelRetry(cuda, ok) ==
    /\ proc = "starting"
    /\ loads' = loads + 1
    /\ IF ok
       THEN /\ model' = [name |-> "small", device |-> IF cuda THEN "cuda" ELSE "cpu"]
            /\ proc' = "serving"
       ELSE /\ model' = model
            /\ proc' = proc
    /\ UNCHANGED <<tempfile, pc, upload, content, decoded, audio_data, result,
                   response, overlapped, call>>

\* Module import: device = "cuda" if available else "cpu";
\* model = whisper.load_model("small", device=device).  An exception here ends
\* the import, so the application is never served.
LoadModel(cuda, ok) ==
    /\ proc = "starting"
    /\ loads' = loads + 1
    /\ IF ok
       THEN /\ model' = [name |-> "small", device |-> IF cuda THEN "cuda" ELSE "cpu"]
            /\ proc' = "serving"
       ELSE /\ model' = model
            /\ proc' = "failed"
    /\ UNCHANGED <<tempfile, pc, upload, content, decoded, audio_data, result,
                   response, overlapped, call>>

\* A POST /transcribe arrives and its coroutine starts.  The await of
\* audio.read() gives control back to the event loop (yields) or completes at
\* once, in which case the coroutine runs on.
Arrive(r, bytes, yields, raises) ==
    /\ proc = "serving"
    /\ pc[r] = "idle"
    /\ LET s == Receive(State, r, bytes) IN
       Commit(IF yields THEN s ELSE transcribe(s, r, raises))
    /\ overlapped' = overlapped \cup
                       {{r, q} : q \in {x \in Requests : x # r /\ ~Finished(pc[x]) /\ pc[x] # "idle"}}
    /\ UNCHANGED <<proc, call>>

\* The event loop resumes a suspended coroutine.
Resume(r, raises) ==
    /\ proc = "serving"
    /\ Suspends(pc[r])
    /\ Commit(transcribe(State, r, raises))
    /\ UNCHANGED <<proc, overlapped, call>>

Next ==
    \/ \E cuda \in BOOLEAN, ok \in BOOLEAN : LoadModel(cuda, ok)
    \/ \E r \in Requests, bytes \in AudioFiles, yields \in BOOLEAN, raises \in BOOLEAN :
          Arrive(r, bytes, yields, raises)
    \/ \E r \in Requests, raises \in BOOLEAN : Resume(r, raises)

Spec == Init /\ [][Next]_vars

----------------------------------------------------------------------------
(* The MCP test server: two tools, one call served at a time *)

MaxMsgLen == 2

\* A string is the sequence of its character codes: NUL, line feed, ESC, "A".
Chars == {0, 10, 27, 65}
RECURSIVE StringsUpTo(_)
StringsUpTo(n) ==
    IF n = 0 THEN {<<>>}
    ELSE LET shorter == StringsUpTo(n - 1) IN
         shorter \cup {Append(m, c) : m \in {x \in shorter : Len(x) = n - 1}, c \in Chars}
Messages == StringsUpTo(MaxMsgLen)

AddInputs == {-1073741823, -65536, -32768, -3, -1, 0, 1, 2, 3, 32767, 65535, 1073741823}

\* Variant: control characters are dropped from the message.
echoPrintable(message) == SelectSeq(message, LAMBDA c : c >= 32)

\* async def echo(message: str) -> str: return message
echo(message) == message

\* Variant: the sum is kept in 16 bits.
add16(a, b) == ((a + b + 32768) % 65536) - 32768

\* async def add(a: int, b: int) -> int: return a + b
add(a, b) == a + b

CallEcho(message) ==
    /\ call' = [tool |-> "echo", args |-> <<message>>, result |-> echo(message),
                outcome |-> "ok"]
    /\ UNCHANGED <<proc, model, loads, tempfile, pc, upload, content, decoded,
                   audio_data, result, response, overlapped>>

CallAdd(a, b) ==
    /\ call' = [tool |-> "add", args |-> <<a, b>>, result |-> add(a, b),
                outcome |-> "ok"]
    /\ UNCHANGED <<proc, model, loads, tempfile, pc, upload, content, decoded,
                   audio_data, result, response, overlapped>>

ToolInit == InitService /\ tempfile = NoFile /\ InitTools

ToolNext ==
    \/ \E message \in Messages : CallEcho(message)
    \/ \E a \in AddInputs, b \in AddInputs : CallAdd(a, b)

ToolSpec == ToolInit /\ [][ToolNext]_vars

----------------------------------------------------------------------------
(* Properties of the transcription service *)

OwnDecode(r) == SfRead(upload[r])
OwnText(r) == ModelTranscribe(model, AsFloat32(OwnDecode(r).data)).text
Apart(r) == \A q \in Requests \ {r} : {r, q} \notin overlapped
Locals(r) == <<pc[r], upload[r], content[r], decoded[r], audio_data[r],
               result[r], response[r]>>

\* C1: a request whose upload decodes to a sample rate other than 16000 Hz
\* ends in an error, never in a success; its samples are left as decoded at
\* the file's own rate (no resampling) and model.transcribe is not called for it.
C1_WrongRateRejected ==
    \A r \in Requests :
        (Finished(pc[r]) /\ OwnDecode(r).status = "ok"
                         /\ OwnDecode(r).samplerate # RequiredRate)
        => /\ pc[r] = "error"
           /\ response[r].kind = "error"
           /\ result[r].kind = "notcalled"
           /\ decoded[r].samplerate = upload[r].rate
           /\ audio_data[r] = OwnDecode(r).data

C1_Witness ==
    \E r \in Requests :
        /\ pc[r] = "error"
        /\ upload[r].kind = "wav"
        /\ upload[r].rate = 44100
        /\ response[r].exc = "ValueError"
        /\ result[r].kind = "notcalled"

\* C2: a request that overlapped in time with no other request decodes the
\* bytes it uploaded itself, and its transcript is the text of its own audio,
\* whatever an earlier request left in temp.wav.
C2_SequentialIndependent ==
    \A r \in Requests :
        (Finished(pc[r]) /\ Apart(r))
        => /\ decoded[r] = OwnDecode(r)
           /\ (pc[r] = "ok" => response[r].body.text = OwnText(r))

C2_Witness ==
    \E r \in Requests, q \in Requests :
        /\ r # q
        /\ {r, q} \notin overlapped
        /\ pc[q] = "error" /\ response[q].exc = "ValueError"
        /\ pc[r] = "ok"
        /\ tempfile = upload[r]
        /\ upload[q].frames # upload[r].frames
        /\ response[r].body.text = OwnText(r)

\* Schedules of the event loop: the orders in which it may resume requests.
MaxSchedule == 4
Schedules == UNION {[1..n -> Requests] : n \in 0..MaxSchedule}

\* The event loop resuming request r in process state s (as Resume does, the
\* inference returning); a request that is not suspended cannot be resumed.
ResumeIn(s, r) == IF Suspends(s.pc[r]) THEN transcribe(s, r, FALSE) ELSE s

RECURSIVE RunSchedule(_, _)
RunSchedule(s, sched) ==
    IF sched = <<>> THEN s
    ELSE CHOOSE u \in {RunSchedule(t, Tail(sched)) : t \in {ResumeIn(s, Head(sched))}} : TRUE

\* In process state s, some request has decoded the bytes another one uploaded.
CrossReadIn(s) ==
    \E r \in Requests, q \in Requests :
        /\ r # q
        /\ s.upload[r] # s.upload[q]
        /\ s.decoded[r].status # "unset"
        /\ s.decoded[r] = SfRead(s.upload[q])
TwoInFlight ==
    \E r \in Requests, q \in Requests :
        /\ r # q
        /\ pc[r] = "reading" /\ pc[q] = "reading"
        /\ upload[r] # upload[q]
        /\ upload[r].kind = "wav" /\ upload[r].rate = RequiredRate
        /\ upload[q].kind = "wav" /\ upload[q].rate = RequiredRate

\* C3 (as stated): when requests with different audio are in flight together,
\* the event loop can resume them in some order that reaches a state in which
\* one of them has decoded the bytes another one wrote.
C3_Original ==
    TwoInFlight => \E sched \in Schedules : CrossReadIn(RunSchedule(State, sched))

\* C3 (amended): requests that are in flight together interleave only at the
\* read of the upload; whichever order they are resumed in, none of them
\* decodes or transcribes the bytes another one wrote.
C3_NoCrossRead ==
    \A r \in Requests, q \in Requests :
        ({r, q} \in overlapped /\ r # q /\ upload[r] # upload[q]
                                /\ decoded[r].status # "unset")
        => /\ decoded[r] # SfRead(upload[q])
           /\ decoded[r] = SfRead(content[r])
           /\ content[r] = upload[r]

C3_Witness ==
    \E r \in Requests, q \in Requests :
        /\ r # q
        /\ {r, q} \in overlapped
        /\ upload[r] # upload[q]
        /\ pc[r] = "ok" /\ pc[q] = "ok"
        /\ tempfile = upload[q]

\* C4: a request that passed the 16000 Hz check and whose inference returned
\* has ended with the success response {text: T} of exactly one field, T being
\* the text of the result the model returned for the samples this request
\* decoded.
C4_SuccessBody ==
    \A r \in Requests :
        (decoded[r].status = "ok" /\ decoded[r].samplerate = RequiredRate
                                  /\ result[r].kind = "dict")
        => /\ pc[r] = "ok"
           /\ result[r] = ModelTranscribe(model, AsFloat32(decoded[r].data))
           /\ response[r].kind = "ok"
           /\ DOMAIN response[r].body = {"text"}
           /\ response[r].body.text = result[r].text

C4_Witness ==
    \E r \in Requests :
        /\ pc[r] = "ok"
        /\ upload[r].frames = <<12000, -12000>>
        /\ DOMAIN response[r].body = {"text"}
        /\ response[r].body.text = result[r].text
        /\ DOMAIN result[r] # {"text"}

\* C7 (as stated): once the service runs, no step changes state that outlives
\* a request: neither the model nor anything else shared by requests.
C7_Original ==
    [][proc = "serving" => (model' = model /\ tempfile' = tempfile)]_vars

\* C7 (amended): the state shared by requests is the model and the file
\* temp.wav.  The model, once loaded, is never changed or loaded again.  The
\* file outlives the request: every request that gets past the read of its
\* upload overwrites it with its own bytes, and no other step changes or
\* removes it.  A step changes the locals of no request but the one it runs.
C7_SharedState ==
    [][/\ proc = "serving" => (model' = model /\ loads' = loads)
       /\ \A r \in Requests : content'[r] # content[r] => tempfile' = upload'[r]
       /\ (\A r \in Requests : content'[r] = content[r]) => tempfile' = tempfile
       /\ tempfile' # NoFile \/ tempfile = NoFile
       /\ \A r \in Requests : pc'[r] = pc[r] => Locals(r)' = Locals(r)
       /\ \A r \in Requests, q \in Requests :
             (r # q /\ pc'[r] # pc[r]) => Locals(q)' = Locals(q)]_vars

\* Two finished requests with different uploads, each having decoded its own:
\* the file was written twice, and holds what the later one wrote.
C7_Witness ==
    \E r \in Requests, q \in Requests :
        /\ r # q
        /\ Finished(pc[r]) /\ Finished(pc[q])
        /\ upload[q] # upload[r]
        /\ decoded[q] = SfRead(upload[q])
        /\ decoded[r] = SfRead(upload[r])
        /\ tempfile = upload[r]
        /\ model.name = "small"

\* C8: the step in which a request gets past the read of its upload leaves
\* temp.wav holding that request's bytes, whether the request then fails or
\* succeeds, and what it decoded is what it wrote; no other step changes the
\* file, and the file is never removed.
C8_TempFileOverwritten ==
    [][/\ \A r \in Requests :
             content'[r] # content[r]
             => /\ tempfile' = upload'[r]
                /\ content'[r] = upload'[r]
                /\ decoded'[r] = SfRead(tempfile')
                /\ Finished(pc'[r])
       /\ (\A r \in Requests : content'[r] = content[r]) => tempfile' = tempfile
       /\ tempfile # NoFile => tempfile' # NoFile]_vars

C8_Witness ==
    \E r \in Requests :
        /\ pc[r] = "error"
        /\ response[r].exc = "ValueError"
        /\ tempfile = upload[r]
        /\ \E q \in Requests : pc[q] = "ok" /\ upload[q] # upload[r]

\* C9: whisper.load_model is called once, before any request is handled; a
\* failed load leaves a process that never handles a request and never loads
\* again.
C9_LoadedOnce ==
    /\ loads <= 1
    /\ (proc = "starting") <=> (loads = 0)
    /\ \A r \in Requests :
          pc[r] # "idle" => (proc = "serving" /\ loads = 1 /\ model.name = "small")
    /\ proc = "failed" => (model = Unloaded /\ \A r \in Requests : pc[r] = "idle")

C9_Witness == proc = "failed" /\ loads = 1 /\ model = Unloaded

\* C10: between steps of the event loop a request is either not started,
\* suspended in the read of its upload, or over: it is never seen between its
\* write and its decode; and every transcript is of the request's own audio,
\* also for requests that were in flight together.
C10_AtomicAfterRead ==
    \A r \in Requests :
        /\ pc[r] \in {"idle", "reading", "ok", "error"}
        /\ pc[r] \in {"idle", "reading"} => (content[r] = NoBytes /\ decoded[r] = NotDecoded)
        /\ pc[r] = "ok" => response[r].body.text = OwnText(r)

C10_Witness ==
    \E r \in Requests, q \in Requests :
        /\ r # q
        /\ {r, q} \in overlapped
        /\ pc[r] = "ok" /\ pc[q] = "reading"
        /\ upload[r] # upload[q]
        /\ tempfile = upload[r]

----------------------------------------------------------------------------
(* Properties of the tools *)

\* C5: echo returns its message unchanged, for the empty string and for
\* strings with control characters too, and never ends in an error.
C5_EchoIdentity ==
    call.tool = "echo"
    => /\ call.result = call.args[1]
       /\ Len(call.result) = Len(call.args[1])
       /\ \A i \in 1..Len(call.args[1]) : call.result[i] = call.args[1][i]
       /\ call.outcome = "ok"

C5_Witness ==
    /\ call.tool = "echo"
    /\ Len(call.args[1]) = MaxMsgLen
    /\ \E i \in 1..Len(call.args[1]) : call.args[1][i] < 32
    /\ call.result = call.args[1]

\* C6: add returns the sum of its arguments, negative and zero included,
\* without wrap-around or truncation; add(2, 3) = 5.
C6_AddSum ==
    call.tool = "add"
    => /\ call.result = call.args[1] + call.args[2]
       /\ call.result - call.args[2] = call.args[1]
       /\ (call.args = <<2, 3>> => call.result = 5)
       /\ (call.args[1] >= 0 /\ call.args[2] >= 0 => call.result >= call.args[1])
       /\ (call.args[1] <= 0 /\ call.args[2] <= 0 => call.result <= call.args[1])
       /\ call.outcome = "ok"

C6_Witness ==
    /\ call.tool = "add"
    /\ call.args = <<32767, 3>>
    /\ call.result = 32770

====
